---- MODULE Spec2Model ----
(***************************************************************************)
(* Speech-Corpus-Khowar: the batch driver process_csv (main.py) and the    *)
(* silence splitter / chunk normalizer split_by_silence_and_chunk          *)
(* (main.py, with an identical copy in utils.py).                          *)
(*                                                                         *)
(* Audio is a sequence of millisecond-long samples, each carrying its      *)
(* position in the source waveform, so that a dropped, duplicated or       *)
(* reordered millisecond is visible.  len(AudioSegment) is Len(seq):       *)
(* convert_to_wav writes 16 kHz mono, 16 frames to the millisecond, so     *)
(* every segment and every slice is a whole number of milliseconds.        *)
(* The float options min_chunk_s and max_chunk_s are held as a count of    *)
(* half-milliseconds (3.0 s is 6000), which keeps the truncation of        *)
(* int(max_chunk_s * 1000) and the comparison len/1000.0 < min_chunk_s     *)
(* exact for values that fall between two whole milliseconds.              *)
(***************************************************************************)
EXTENDS Integers, Sequences, FiniteSets, TLC

\* ------------------------------------------------------------------ bounds
\* most raw segments split_on_silence returns for one source
MaxSegs == 3
\* longest raw segment, in ms
MaxLen == 3
\* most rows of the CSV's url column
MaxRows == 2
\* pieces the interpreter can still allocate beyond one per millisecond of
\* the longest audio before list.append raises MemoryError
MemSlack == 2

Null == "NaN"
Urls == {"a", "b"}
\* a CSV whose header has no 'url' column, and one whose url column is col
NoUrlColumn == [has_url |-> FALSE, url |-> <<>>]
Csv(col) == [has_url |-> TRUE, url |-> col]

Min(x, y) == IF x <= y THEN x ELSE y
Max(x, y) == IF x >= y THEN x ELSE y

\* ------------------------------------------------------------ pure helpers
RECURSIVE Flatten(_)
\* AudioSegment concatenation of a list of segments, in order
Flatten(ss) == IF ss = <<>> THEN <<>> ELSE Head(ss) \o Flatten(Tail(ss))

RECURSIVE SumLen(_)
SumLen(ls) == IF ls = <<>> THEN 0 ELSE Head(ls) + SumLen(Tail(ls))

\* the n-th raw segment of an audio whose raw segments have lengths lens:
\* its samples are the waveform positions it covers
RawSegment(lens, n) ==
    [m \in 1..lens[n] |-> SumLen(SubSeq(lens, 1, n - 1)) + m]

\* silence.split_on_silence(audio, ...): the raw segments, in temporal order
split_on_silence(lens) == [n \in 1..Len(lens) |-> RawSegment(lens, n)]

\* [c for c in raw_chunks if len(c) > 0]
NonEmpty(raw) == SelectSeq(raw, LAMBDA c : Len(c) > 0)

\* mutant: a segment one millisecond short of min_chunk_s passes
DurGeMinOffByOneMs(seg, min_s) == 2 * (Len(seg) + 1) >= min_s

\* len(seg) / 1000.0 >= min_chunk_s, with min_chunk_s in half-milliseconds
DurGeMin(seg, min_s) == 2 * Len(seg) >= min_s

\* the whole millisecond counts v up to 8000 for which the double product
\* (v / 1000) * 1000 falls just below v, as 1.001 * 1000 = 1000.9999999999999
FloatShortMs ==
    {v \in 1001..1023 : v % 2 = 1} \cup {v \in 2002..2046 : v % 4 = 2}
    \cup {4004, 4007, 4012, 4015, 4020, 4023, 4028, 4031, 4036, 4039, 4044, 4047,
          4052, 4055, 4060, 4063, 4068, 4071, 4076, 4079, 4084, 4087, 4092, 4095}

\* int(x * 1000) for x in half-milliseconds: the double product, truncated
\* toward zero
IntMs(x) ==
    LET mag   == IF x >= 0 THEN x ELSE -x
        ms    == mag \div 2
        trunc == IF mag % 2 = 0 /\ ms \in FloatShortMs THEN ms - 1 ELSE ms
    IN  IF x >= 0 THEN trunc ELSE -trunc

\* AudioSegment._parse_position: a negative position counts from the end
ParsePosition(n, v) == IF v < 0 THEN n - (-v) ELSE v

\* mutant: the slice loses its last sample
PySliceDropsLast(data, s, e) ==
    LET n  == Len(data)
        s1 == IF s < 0 THEN Max(s + n, 0) ELSE Min(s, n)
        e1 == IF e < 0 THEN Max(e + n, 0) ELSE Min(e, n)
    IN  IF s1 < e1 THEN SubSeq(data, s1 + 1, e1 - 1) ELSE <<>>

\* Python's data[s:e] on a sequence of length Len(data)
PySlice(data, s, e) ==
    LET n  == Len(data)
        s1 == IF s < 0 THEN Max(s + n, 0) ELSE Min(s, n)
        e1 == IF e < 0 THEN Max(e + n, 0) ELSE Min(e, n)
    IN  IF s1 < e1 THEN SubSeq(data, s1 + 1, e1) ELSE <<>>

\* AudioSegment.__getitem__(slice(a, b)): c[a:b] in milliseconds
Slice(c, a, b) ==
    LET n == Len(c)
    IN  PySlice(c, ParsePosition(n, Min(a, n)), ParsePosition(n, Min(b, n)))

\* while start < len(c)
MoreToSlice(start, c) == start < Len(c)

\* mutant: the slice runs one millisecond past start + max_ms
SliceEndOverlong(start, max_ms) == start + max_ms + 1

\* the end of the slice taken at start: c[start:start + max_ms]
SliceEnd(start, max_ms) == start + max_ms

\* df['url'].dropna()
DropNa(col) == SelectSeq(col, LAMBDA x : x # Null)

RECURSIVE Unique(_)
\* Series.unique(): first occurrences, in order of appearance
Unique(col) ==
    IF col = <<>> THEN <<>>
    ELSE LET rest == Unique(SubSeq(col, 1, Len(col) - 1))
             x    == col[Len(col)]
         IN  IF \E n \in 1..Len(rest) : rest[n] = x THEN rest
             ELSE Append(rest, x)

\* ------------------------------------------------------------------- state
VARIABLES
    csv,            \* the CSV: whether it has a url column, and that column
    audio_at,       \* per url: the lengths of the raw segments its audio splits into
    min_chunk_s,    \* --min_chunk_s, in half-milliseconds
    max_chunk_s,    \* --max_chunk_s, in half-milliseconds
    pc,             \* position in process_csv / split_by_silence_and_chunk
    urls,           \* df['url'].dropna().unique()
    idx,            \* how many urls the for loop of process_csv has taken
    url,            \* the loop variable of process_csv
    chunks,         \* the non-empty raw segments
    final_chunks,   \* output of the merge loop
    i, j, merged,   \* merge loop locals
    processed,      \* output of the split loop
    max_ms,         \* int(max_chunk_s * 1000)
    k,              \* how many elements of final_chunks the split loop has finished
    start,          \* slice cursor of the inner while loop
    exported,       \* the chunks written by the last call that returned
    printed,        \* the per-url lines process_csv has printed
    piece_of        \* history: for each element of processed, the index in
                    \* final_chunks of the chunk it was taken from

vars == <<csv, audio_at, min_chunk_s, max_chunk_s, pc, urls, idx, url, chunks,
          final_chunks, i, j, merged, processed, max_ms, k, start, exported,
          printed, piece_of>>

config == <<csv, audio_at, min_chunk_s, max_chunk_s>>
merge_locals == <<chunks, final_chunks, i, j, merged>>
split_locals == <<processed, max_ms, k, start, piece_of>>

\* list.append past this many pieces raises MemoryError
MemCap == MaxSegs * MaxLen + MemSlack

\* sequences over S of length at most n
SeqUpTo(S, n) == UNION {[1..m -> S] : m \in 0..n}

UrlsOf(df) == {df.url[n] : n \in 1..Len(df.url)} \ {Null}

\* raw segment lists of one audio; split_on_silence may hand back empty segments
RawLists == SeqUpTo(0..MaxLen, MaxSegs)

\* option values, in half-milliseconds: 0, 1.5, 2 and 2.5 ms for the minimum;
\* negative, below one millisecond, whole and fractional milliseconds for the
\* maximum
MinChoices == {0, 3, 4, 5}
MaxChoices == {-2, -1, 0, 2, 4, 5, 8}

\* the spec's scenarios, at their real scale: [1.0s, 1.0s, 1.5s] with
\* min 3.0 s; 17.5 s with max 8.0 s; min 5.0 s with max 3.0 s; and a chunk of
\* exactly max_chunk_s = 1.001 s
Scenarios ==
    { [min |-> 6000,  max |-> 16000, lens |-> <<1000, 1000, 1500>>],
      [min |-> 6000,  max |-> 16000, lens |-> <<17500>>],
      [min |-> 10000, max |-> 6000,  lens |-> <<6000>>],
      [min |-> 1000,  max |-> 2002,  lens |-> <<1001>>] }

StartState ==
    /\ pc = "read"
    /\ urls = <<>> /\ idx = 0 /\ url = Null
    /\ chunks = <<>> /\ final_chunks = <<>> /\ i = 0 /\ j = 0 /\ merged = <<>>
    /\ processed = <<>> /\ max_ms = 0 /\ k = 0 /\ start = 0 /\ piece_of = <<>>
    /\ exported = <<>> /\ printed = <<>>

\* one source at a time, every option value and every raw segment list
Init ==
    /\ StartState
    /\ \/ /\ csv \in {Csv(<<>>), Csv(<<Null>>), Csv(<<"a">>), NoUrlColumn}
          /\ min_chunk_s \in MinChoices
          /\ max_chunk_s \in MaxChoices
          /\ audio_at \in [UrlsOf(csv) -> RawLists]
       \/ \E sc \in Scenarios :
             /\ csv = Csv(<<"a">>)
             /\ min_chunk_s = sc.min
             /\ max_chunk_s = sc.max
             /\ audio_at = [u \in {"a"} |-> sc.lens]

\* ----------------------------------------------------------------- actions
\* locals of split_by_silence_and_chunk die when the call ends
LocalsDropped ==
    /\ chunks' = <<>> /\ final_chunks' = <<>> /\ i' = 0 /\ j' = 0 /\ merged' = <<>>
    /\ processed' = <<>> /\ max_ms' = 0 /\ k' = 0 /\ start' = 0 /\ piece_of' = <<>>

\* mutant: no except clause, the exception leaves process_csv
OnExceptionPropagates(e) ==
    /\ pc' = "aborted"
    /\ LocalsDropped
    /\ UNCHANGED <<config, urls, idx, url, exported, printed>>

\* except Exception as e: print(f"Error for {url}: {e}"), then the next url
OnException(e) ==
    /\ printed' = Append(printed, [url |-> url, err |-> e, n |-> 0])
    /\ pc' = "loop"
    /\ LocalsDropped
    /\ UNCHANGED <<config, urls, idx, url, exported>>

\* pd.read_csv; the url column is there
ReadCsv ==
    /\ pc = "read" /\ csv.has_url
    /\ urls' = Unique(DropNa(csv.url))
    /\ pc' = "loop"
    /\ UNCHANGED <<config, idx, url, merge_locals, split_locals, exported, printed>>

\* raise ValueError("CSV must have 'url' column"): outside the try, ends the run
RaiseNoUrlColumn ==
    /\ pc = "read" /\ ~csv.has_url
    /\ pc' = "aborted"
    /\ UNCHANGED <<config, urls, idx, url, merge_locals, split_locals, exported, printed>>

\* for url in ...: the next url
NextUrl ==
    /\ pc = "loop" /\ idx < Len(urls)
    /\ idx' = idx + 1
    /\ url' = urls[idx + 1]
    /\ pc' = "download"
    /\ UNCHANGED <<config, urls, merge_locals, split_locals, exported, printed>>

\* the for loop is exhausted
Finish ==
    /\ pc = "loop" /\ idx >= Len(urls)
    /\ pc' = "done"
    /\ UNCHANGED <<config, urls, idx, url, merge_locals, split_locals, exported, printed>>

Download ==
    /\ pc = "download"
    /\ pc' = "convert"
    /\ UNCHANGED <<config, urls, idx, url, merge_locals, split_locals, exported, printed>>

DownloadFails == pc = "download" /\ OnException("download")

\* the wav is already there, or convert_to_wav makes it
Convert ==
    /\ pc = "convert"
    /\ pc' = "segment"
    /\ UNCHANGED <<config, urls, idx, url, merge_locals, split_locals, exported, printed>>

ConvertFails == pc = "convert" /\ OnException("convert")

\* AudioSegment.from_wav, split_on_silence, the non-empty filter, i = 0
Segment ==
    /\ pc = "segment"
    /\ chunks' = NonEmpty(split_on_silence(audio_at[url]))
    /\ final_chunks' = <<>>
    /\ i' = 0
    /\ pc' = "merge"
    /\ UNCHANGED <<config, urls, idx, url, j, merged, split_locals, exported, printed>>

SegmentFails == pc = "segment" /\ OnException("from_wav")

\* dur_s >= min_chunk_s: emit the segment as it is
MergeEmit ==
    /\ pc = "merge" /\ i < Len(chunks)
    /\ DurGeMin(chunks[i + 1], min_chunk_s)
    /\ final_chunks' = Append(final_chunks, chunks[i + 1])
    /\ i' = i + 1
    /\ UNCHANGED <<config, pc, urls, idx, url, chunks, j, merged, split_locals,
                   exported, printed>>

\* mutant: j = i, the accumulator absorbs its own first segment again
MergeStartFromCursor ==
    /\ pc = "merge" /\ i < Len(chunks)
    /\ ~DurGeMin(chunks[i + 1], min_chunk_s)
    /\ j' = i
    /\ merged' = chunks[i + 1]
    /\ pc' = "merge_inner"
    /\ UNCHANGED <<config, urls, idx, url, chunks, final_chunks, i, split_locals,
                   exported, printed>>

\* an undersized segment opens an accumulator
MergeStart ==
    /\ pc = "merge" /\ i < Len(chunks)
    /\ ~DurGeMin(chunks[i + 1], min_chunk_s)
    /\ j' = i + 1
    /\ merged' = chunks[i + 1]
    /\ pc' = "merge_inner"
    /\ UNCHANGED <<config, urls, idx, url, chunks, final_chunks, i, split_locals,
                   exported, printed>>

\* while j < len(chunks) and len(merged)/1000.0 < min_chunk_s
MergeAbsorb ==
    /\ pc = "merge_inner"
    /\ j < Len(chunks) /\ ~DurGeMin(merged, min_chunk_s)
    /\ merged' = merged \o chunks[j + 1]
    /\ j' = j + 1
    /\ UNCHANGED <<config, pc, urls, idx, url, chunks, final_chunks, i, split_locals,
                   exported, printed>>

\* mutant: an accumulator still undersized when the input runs out is dropped
MergeFlushDropsShortTail ==
    /\ pc = "merge_inner"
    /\ ~(j < Len(chunks) /\ ~DurGeMin(merged, min_chunk_s))
    /\ final_chunks' = IF DurGeMin(merged, min_chunk_s)
                       THEN Append(final_chunks, merged) ELSE final_chunks
    /\ i' = j
    /\ pc' = "merge"
    /\ UNCHANGED <<config, urls, idx, url, chunks, j, merged, split_locals,
                   exported, printed>>

\* the inner while ends: final_chunks.append(merged); i = j
MergeFlush ==
    /\ pc = "merge_inner"
    /\ ~(j < Len(chunks) /\ ~DurGeMin(merged, min_chunk_s))
    /\ final_chunks' = Append(final_chunks, merged)
    /\ i' = j
    /\ pc' = "merge"
    /\ UNCHANGED <<config, urls, idx, url, chunks, j, merged, split_locals,
                   exported, printed>>

\* the merge loop ends: processed = [], max_ms = int(max_chunk_s * 1000)
MergeDone ==
    /\ pc = "merge" /\ i >= Len(chunks)
    /\ processed' = <<>>
    /\ piece_of' = <<>>
    /\ max_ms' = IntMs(max_chunk_s)
    /\ k' = 0
    /\ pc' = "split"
    /\ UNCHANGED <<config, urls, idx, url, merge_locals, start, exported, printed>>

\* len(c) <= max_ms: the chunk goes out unsplit
SplitKeep ==
    /\ pc = "split" /\ k < Len(final_chunks)
    /\ Len(final_chunks[k + 1]) <= max_ms
    /\ processed' = Append(processed, final_chunks[k + 1])
    /\ piece_of' = Append(piece_of, k + 1)
    /\ k' = k + 1
    /\ UNCHANGED <<config, pc, urls, idx, url, merge_locals, max_ms, start,
                   exported, printed>>

\* len(c) > max_ms: start = 0
SplitStart ==
    /\ pc = "split" /\ k < Len(final_chunks)
    /\ Len(final_chunks[k + 1]) > max_ms
    /\ start' = 0
    /\ pc' = "slice"
    /\ UNCHANGED <<config, urls, idx, url, merge_locals, processed, piece_of, max_ms,
                   k, exported, printed>>

\* while start < len(c): piece = c[start:start + max_ms]; append; start += max_ms
SlicePiece ==
    /\ pc = "slice" /\ MoreToSlice(start, final_chunks[k + 1])
    /\ Len(processed) < MemCap
    /\ processed' = Append(processed,
                           Slice(final_chunks[k + 1], start, SliceEnd(start, max_ms)))
    /\ piece_of' = Append(piece_of, k + 1)
    /\ start' = start + max_ms
    /\ UNCHANGED <<config, pc, urls, idx, url, merge_locals, max_ms, k,
                   exported, printed>>

\* the same step once no further piece can be allocated
SliceMemoryError ==
    /\ pc = "slice" /\ MoreToSlice(start, final_chunks[k + 1])
    /\ Len(processed) >= MemCap
    /\ OnException("MemoryError")

\* the inner while ends: the for loop takes the next chunk
SliceDone ==
    /\ pc = "slice" /\ ~MoreToSlice(start, final_chunks[k + 1])
    /\ k' = k + 1
    /\ pc' = "split"
    /\ UNCHANGED <<config, urls, idx, url, merge_locals, processed, piece_of, max_ms,
                   start, exported, printed>>

\* the for loop over final_chunks ends
SplitDone ==
    /\ pc = "split" /\ k >= Len(final_chunks)
    /\ pc' = "export"
    /\ UNCHANGED <<config, urls, idx, url, merge_locals, split_locals, exported, printed>>

\* every chunk is written, the call returns, the count is printed
Export ==
    /\ pc = "export"
    /\ exported' = processed
    /\ printed' = Append(printed, [url |-> url, err |-> "none", n |-> Len(processed)])
    /\ pc' = "loop"
    /\ LocalsDropped
    /\ UNCHANGED <<config, urls, idx, url>>

ExportFails == pc = "export" /\ OnException("export")

Next ==
    \/ ReadCsv \/ RaiseNoUrlColumn \/ NextUrl \/ Finish
    \/ Download \/ DownloadFails \/ Convert \/ ConvertFails
    \/ Segment \/ SegmentFails
    \/ MergeEmit \/ MergeStart \/ MergeAbsorb \/ MergeFlush \/ MergeDone
    \/ SplitKeep \/ SplitStart \/ SlicePiece \/ SliceMemoryError \/ SliceDone
    \/ SplitDone \/ Export \/ ExportFails

Spec == Init /\ [][Next]_vars

\* ------------------------------------------------------------- batch runs
\* CSVs of several rows, with missing and repeated urls; three audios (no
\* speech, one short segment, three segments) and three option pairs (the
\* defaults' shape, a maximum below one millisecond, a maximum below the
\* minimum)
BatchLists == {<<>>, <<1>>, <<2, 1, 3>>}
BatchOptions == {[min |-> 3, max |-> 8], [min |-> 3, max |-> 0], [min |-> 5, max |-> 2]}

BatchInit ==
    /\ StartState
    /\ csv \in {Csv(col) : col \in SeqUpTo(Urls \cup {Null}, MaxRows)} \cup {NoUrlColumn}
    /\ \E o \in BatchOptions : min_chunk_s = o.min /\ max_chunk_s = o.max
    /\ audio_at \in [UrlsOf(csv) -> BatchLists]

\* process_csv is one sequential thread: while a statement can run it runs
BatchSpec == BatchInit /\ [][Next]_vars /\ WF_vars(Next)

\* ------------------------------------------------------------------ claims
\* durations as the claims state them, from the options in half-milliseconds
AtLeastMin(seg) == 2 * Len(seg) >= min_chunk_s
AtMostMax(seg) == 2 * Len(seg) <= max_chunk_s

MergePhaseOver == pc \in {"split", "slice", "export"}

RECURSIVE PiecesUpTo(_, _)
PiecesUpTo(m, n) ==
    IF n = 0 THEN <<>>
    ELSE IF piece_of[n] = m THEN Append(PiecesUpTo(m, n - 1), processed[n])
         ELSE PiecesUpTo(m, n - 1)

\* the pieces the split loop has emitted for final_chunks[m], in order
PiecesOf(m) == PiecesUpTo(m, Len(processed))

\* final_chunks[m] was cut by the inner while loop rather than kept whole
WasSliced(m) == Len(final_chunks[m]) > max_ms

\* the chunks of final_chunks the split loop is through with
FinishedChunks == IF MergePhaseOver THEN 1..k ELSE {}

Lens(ss) == [n \in 1..Len(ss) |-> Len(ss[n])]

\* C1: every chunk handed to export, and every chunk exported, lasts at most
\* max_chunk_s, that is at most int(max_chunk_s * 1000) milliseconds.
C1_ExportedAtMostMax ==
    /\ pc = "export" =>
          \A n \in 1..Len(processed) :
              Len(processed[n]) <= max_ms /\ AtMostMax(processed[n])
    /\ \A n \in 1..Len(exported) : AtMostMax(exported[n])

C1_Witness ==
    /\ pc = "export"
    /\ \E n \in 1..Len(processed) :
          /\ WasSliced(piece_of[n])
          /\ Len(processed[n]) = max_ms
    /\ \E n \in 1..Len(processed) : ~WasSliced(piece_of[n])

\* C2: with max_chunk_s <= min_chunk_s the options are rejected before any
\* processing: nothing is merged, split or exported for any source.
C2_RejectedBeforeProcessing ==
    max_chunk_s <= min_chunk_s =>
        /\ final_chunks = <<>> /\ merged = <<>> /\ processed = <<>>
        /\ exported = <<>>
        /\ \A n \in 1..Len(printed) : printed[n].err # "none"

\* C3 as stated: in the sequence handed to export, every chunk but the last
\* lasts at least min_chunk_s (looked at for options with
\* 0 < min_chunk_s < max_chunk_s alone, which no reading of the options
\* rejects).
C3_OnlyLastUndersized ==
    (pc = "export" /\ 0 < min_chunk_s /\ min_chunk_s < max_chunk_s) =>
        \A n \in 1..(Len(processed) - 1) : AtLeastMin(processed[n])

\* C3 amended: in the sequence handed to export, every chunk but the last
\* that is a whole Phase-A chunk (not a piece cut from an oversized one)
\* lasts at least min_chunk_s.
C3_OnlyLastOrSlicedUndersized ==
    pc = "export" =>
        \A n \in 1..(Len(processed) - 1) :
            ~WasSliced(piece_of[n]) => AtLeastMin(processed[n])

C3_Witness ==
    /\ pc = "export"
    /\ \E n, m \in 1..(Len(processed) - 1) :
          /\ ~WasSliced(piece_of[n]) /\ min_chunk_s > 0
          /\ WasSliced(piece_of[m]) /\ ~AtLeastMin(processed[m])

\* C4: while and after the merge loop runs, an element of final_chunks
\* shorter than min_chunk_s is the last one and was emitted because the input
\* ran out; once the loop has ended the tail of the input is in final_chunks,
\* undersized or not.
C4_UndersizedOnlyTrailing ==
    /\ \A n \in 1..Len(final_chunks) :
          ~AtLeastMin(final_chunks[n]) =>
              n = Len(final_chunks) /\ i >= Len(chunks)
    /\ (MergePhaseOver /\ chunks # <<>>) =>
          /\ final_chunks # <<>>
          /\ LET last == final_chunks[Len(final_chunks)]
                 tail == chunks[Len(chunks)]
             IN  /\ Len(last) >= Len(tail)
                 /\ last[Len(last)] = tail[Len(tail)]

C4_Witness ==
    /\ pc = "split"
    /\ Len(final_chunks) >= 2
    /\ ~AtLeastMin(final_chunks[Len(final_chunks)])

\* C5: for every Phase-A chunk the split loop is through with, its pieces
\* concatenated in order are that chunk, sample for sample, and the pieces of
\* different chunks keep the order of those chunks.
C5_SplitLossless ==
    MergePhaseOver =>
        /\ \A m \in FinishedChunks : Flatten(PiecesOf(m)) = final_chunks[m]
        /\ \A n \in 1..(Len(piece_of) - 1) : piece_of[n] <= piece_of[n + 1]
        /\ pc = "export" => Flatten(processed) = Flatten(final_chunks)

C5_Witness ==
    /\ pc = "export"
    /\ Len(final_chunks) >= 2
    /\ \E m \in 1..Len(final_chunks) : Len(PiecesOf(m)) >= 3
    /\ \E m \in 1..Len(final_chunks) : Len(PiecesOf(m)) = 1

\* C6: a Phase-A chunk longer than max_chunk_s is cut into pieces of exactly
\* max_chunk_s and a final remainder in (0, max_chunk_s]; a chunk of
\* max_chunk_s or less is one unsplit piece.  Stated of the chunks the split
\* loop is through with, for options 0 < min_chunk_s < max_chunk_s with
\* max_chunk_s a whole number of milliseconds.
C6_PiecesOfExactlyMaxChunkS ==
    (0 < min_chunk_s /\ min_chunk_s < max_chunk_s /\ max_chunk_s % 2 = 0) =>
    \A m \in FinishedChunks :
        LET ps == PiecesOf(m)
        IN  IF ~AtMostMax(final_chunks[m])
            THEN /\ Len(ps) >= 2
                 /\ \A n \in 1..(Len(ps) - 1) : 2 * Len(ps[n]) = max_chunk_s
                 /\ Len(ps[Len(ps)]) > 0 /\ AtMostMax(ps[Len(ps)])
            ELSE ps = <<final_chunks[m]>>

\* C7: the merge loop consumes the segments once each, in order: what it has
\* emitted (plus the open accumulator) is exactly the segments before the
\* cursor, every emitted chunk is a run of consecutive segments, and at the
\* end nothing is left over; [1.0, 1.0, 1.5] s with 3.0 s gives one 3.5 s chunk.
C7_MergeForwardPartitions ==
    /\ pc = "merge" => Flatten(final_chunks) = Flatten(SubSeq(chunks, 1, i))
    /\ pc = "merge_inner" =>
          /\ i < j /\ j <= Len(chunks)
          /\ Flatten(final_chunks) = Flatten(SubSeq(chunks, 1, i))
          /\ merged = Flatten(SubSeq(chunks, i + 1, j))
    /\ \A n \in 1..Len(final_chunks) :
          \E a \in 1..Len(chunks) : \E b \in a..Len(chunks) :
              final_chunks[n] = Flatten(SubSeq(chunks, a, b))
    /\ MergePhaseOver => Flatten(final_chunks) = Flatten(chunks)
    /\ (MergePhaseOver /\ Lens(chunks) = <<1000, 1000, 1500>> /\ min_chunk_s = 6000) =>
          Lens(final_chunks) = <<3500>>

C7_Witness ==
    /\ pc = "split"
    /\ Lens(chunks) = <<1000, 1000, 1500>>
    /\ Lens(final_chunks) = <<3500>>

\* C8: when every input chunk lasts between min_chunk_s and max_chunk_s, the
\* merge loop followed by the split loop hands the same sequence to export.
C8_IdempotentInBounds ==
    (pc = "export" /\ \A n \in 1..Len(chunks) : AtLeastMin(chunks[n]) /\ AtMostMax(chunks[n]))
        => processed = chunks

\* the urls process_csv has printed a line for, in order
PrintedUrls == [n \in 1..Len(printed) |-> printed[n].url]

FirstRow(u) == CHOOSE n \in 1..Len(csv.url) : csv.url[n] = u /\ \A m \in 1..(n - 1) : csv.url[m] # u

\* every non-null url of the CSV has exactly one line, in order of first
\* appearance
EachUrlOnce ==
    /\ {PrintedUrls[n] : n \in 1..Len(printed)} = UrlsOf(csv)
    /\ \A n, m \in 1..Len(printed) :
          n < m => PrintedUrls[n] # Null /\ FirstRow(PrintedUrls[n]) < FirstRow(PrintedUrls[m])

InPipeline == pc \in {"download", "convert", "segment", "merge", "merge_inner",
                      "split", "slice", "export"}

C10_LoopsReachExport ==
    \A n \in 1..Len(printed) : printed[n].err # "MemoryError"

====
